---- MODULE Spec2Model ----
(***************************************************************************)
(* Model of calculator.py: the request handler calculate_api and the       *)
(* evaluator safe_math_eval (alias replacement, percentage rewrite, the    *)
(* expression parser, eval_node and the result formatting).                *)
(*                                                                         *)
(* Text is a sequence of one-character strings.  A number is the reduced   *)
(* fraction num/den together with its Python type.                         *)
(***************************************************************************)
EXTENDS Integers, Sequences, FiniteSets, TLC

VARIABLES pc, request, invoked, expr, rewrites, source, parsed, steps, outcome,
          response

vars ==
  <<pc, request, invoked, expr, rewrites, source, parsed, steps, outcome, response>>

(***************************************************************************)
(* Characters                                                              *)
(***************************************************************************)
Digit == {"0", "1", "2", "3", "4", "5", "6", "7", "8", "9"}

Letter ==
  {"a", "b", "c", "d", "e", "f", "g", "h", "i", "j", "k", "l", "m",
   "n", "o", "p", "q", "r", "s", "t", "u", "v", "w", "x", "y", "z",
   "A", "B", "C", "D", "E", "F", "G", "H", "I", "J", "K", "L", "M",
   "N", "O", "P", "Q", "R", "S", "T", "U", "V", "W", "X", "Y", "Z"}

\* The blanks of the model's alphabet (str.strip, \s and the tokenizer treat
\* them alike).
Whitespace == {" ", "\t"}

\* The character class widened by ','.
GateCharsWithComma ==
  Digit \cup {"+", "-", "*", "/", "(", ")", ".", "%", "^", "×", "÷", ","}
        \cup Whitespace \cup Letter

\* The character class of the regular expression in calculate_api.
GateChars ==
  Digit \cup {"+", "-", "*", "/", "(", ")", ".", "%", "^", "×", "÷"}
        \cup Whitespace \cup Letter

\* The five characters replace_percent tests with before.endswith(op).
PercentOps == {"+", "-", "*", "/", "("}

\* [+\-*/] and [\d.] of the base pattern in replace_percent.
BaseOps == {"+", "-", "*", "/"}

NumDot == Digit \cup {"."}

(***************************************************************************)
(* String helpers                                                          *)
(***************************************************************************)
Min(S) == CHOOSE x \in S : \A y \in S : x <= y

Max(S) == CHOOSE x \in S : \A y \in S : x >= y

\* First index from i on whose character is outside class (Len(s) + 1 if none).
FirstOutside(s, i, class) ==
  LET stops == {j \in i..Len(s) : s[j] \notin class}
  IN  IF stops = {} THEN Len(s) + 1 ELSE Min(stops)

\* str.strip()
strip(s) ==
  LET kept == {j \in 1..Len(s) : s[j] \notin Whitespace}
  IN  IF kept = {} THEN <<>> ELSE SubSeq(s, Min(kept), Max(kept))

\* str.replace(old, new) for a one-character old (by halves, to keep the
\* recursion shallow on long text)
RECURSIVE replace(_, _, _)
replace(s, old, new) ==
  IF Len(s) = 0 THEN <<>>
  ELSE IF Len(s) = 1 THEN (IF s[1] = old THEN new ELSE s)
  ELSE LET h == Len(s) \div 2
       IN  replace(SubSeq(s, 1, h), old, new)
             \o replace(SubSeq(s, h + 1, Len(s)), old, new)

\* expr.strip().replace('^', '**').replace('×', '*').replace('÷', '/')
ReplaceAliases(s) ==
  replace(replace(replace(strip(s), "^", <<"*", "*">>), "×", <<"*">>), "÷", <<"/">>)

(***************************************************************************)
(* The percentage rewrite: the re.sub call with callback replace_percent    *)
(***************************************************************************)
\* Last index of the run of digits that starts at i (i - 1 when there is none).
DigitRunEnd(s, i) == FirstOutside(s, i, Digit) - 1

\* Index of the '%' that ends the match of (\d+\.?\d*)% starting at i, or 0.
PercentMatchEnd(s, i) ==
  LET p == DigitRunEnd(s, i)
      q == IF p + 1 <= Len(s) /\ s[p + 1] = "." THEN DigitRunEnd(s, p + 2) ELSE p
  IN  IF p < i THEN 0
      ELSE IF q + 1 <= Len(s) /\ s[q + 1] = "%" THEN q + 1
      ELSE 0

\* The matches of a re.sub limited to one replacement (count=1).
PercentMatchesFirstOnly(s, pos) ==
  LET starts == {i \in pos..Len(s) : PercentMatchEnd(s, i) # 0}
  IN  IF starts = {} THEN <<>>
      ELSE <<[start |-> Min(starts), end |-> PercentMatchEnd(s, Min(starts))]>>

\* The non-overlapping matches re.sub finds, left to right, from position pos:
\* the leftmost match at or after pos, then those after its end.
RECURSIVE PercentMatches(_, _)
PercentMatches(s, pos) ==
  LET starts == {i \in pos..Len(s) : PercentMatchEnd(s, i) # 0}
  IN  IF starts = {} THEN <<>>
      ELSE LET i == Min(starts)
               e == PercentMatchEnd(s, i)
           IN  <<[start |-> i, end |-> e]>> \o PercentMatches(s, e + 1)

\* Start of the match of ([\d.]+(?:[+\-*/][\d.]+)*)$ whose tail begins at i.
RECURSIVE BaseStart(_, _)
BaseStart(s, i) ==
  IF i > 1 /\ s[i - 1] \in NumDot THEN BaseStart(s, i - 1)
  ELSE IF i > 2 /\ s[i - 1] \in BaseOps /\ s[i - 2] \in NumDot
       THEN BaseStart(s, i - 2)
  ELSE i

\* before.endswith(op) for some op in '+-*/('
EndsWithOp(before) ==
  before # <<>> /\ before[Len(before)] \in PercentOps

\* The callback with a standalone replacement that lacks its parentheses.
replace_percent_bare(s, m) ==
  LET num    == SubSeq(s, m.start, m.end - 1)
      before == SubSeq(s, 1, m.start - 1)
      standalone == num \o <<"/", "1", "0", "0">>
  IN  IF EndsWithOp(before) THEN standalone
      ELSE IF before # <<>> /\ before[Len(before)] \in NumDot
           THEN LET base == SubSeq(before, BaseStart(before, Len(before)),
                                   Len(before))
                IN  <<"+", "(">> \o base \o <<"*">> \o num
                      \o <<"/", "1", "0", "0", ")">>
      ELSE standalone

\* The callback of re.sub: the replacement text for match m of text s (the
\* closure variable expr, which still holds the text before the rewrite).
replace_percent(s, m) ==
  LET num    == SubSeq(s, m.start, m.end - 1)
      before == SubSeq(s, 1, m.start - 1)
      standalone == <<"(">> \o num \o <<"/", "1", "0", "0", ")">>
  IN  IF EndsWithOp(before) THEN standalone
      ELSE IF before # <<>> /\ before[Len(before)] \in NumDot
           THEN LET base == SubSeq(before, BaseStart(before, Len(before)),
                                   Len(before))
                IN  <<"+", "(">> \o base \o <<"*">> \o num
                      \o <<"/", "1", "0", "0", ")">>
      ELSE standalone

\* One record per call of replace_percent.
Replacements(s, ms) ==
  [k \in 1..Len(ms) |->
     [start |-> ms[k].start, end |-> ms[k].end,
      num   |-> SubSeq(s, ms[k].start, ms[k].end - 1),
      repl  |-> replace_percent(s, ms[k])]]

Rewrites(s) == Replacements(s, PercentMatches(s, 1))

\* The text re.sub returns: unmatched stretches and replacements, in order.
RECURSIVE Substitute(_, _, _, _)
Substitute(s, rs, k, pos) ==
  IF k > Len(rs) THEN SubSeq(s, pos, Len(s))
  ELSE SubSeq(s, pos, rs[k].start - 1) \o rs[k].repl
         \o Substitute(s, rs, k + 1, rs[k].end + 1)

(***************************************************************************)
(* Bounds of the number domain                                             *)
(***************************************************************************)
\* Numerators and denominators the model computes with stay within this
\* magnitude; an input whose evaluation needs more is left out of the inputs.
NumLimit == 10000

\* Longest digit string whose value the model computes.
MaxDigits == 6

(***************************************************************************)
(* ast.parse(expr, mode='eval'): tokens                                    *)
(***************************************************************************)
DigitVal(c) ==
  CASE c = "0" -> 0 [] c = "1" -> 1 [] c = "2" -> 2 [] c = "3" -> 3
    [] c = "4" -> 4 [] c = "5" -> 5 [] c = "6" -> 6 [] c = "7" -> 7
    [] c = "8" -> 8 [] c = "9" -> 9

\* Letters that continue a numeric literal in Python: exponent and imaginary
\* unit after any number, radix prefixes after a lone 0.  Literals of those
\* forms are outside the inputs.
LiteralSuffix == {"e", "E", "j", "J"}

RadixPrefix == {"x", "X", "o", "O", "b", "B"}

\* Last index of the run of identifier characters starting at i.
NameRunEnd(s, i) == FirstOutside(s, i, Letter \cup Digit) - 1

AllZero(ds) == \A k \in 1..Len(ds) : ds[k] = "0"

At(s, i) == IF i >= 1 /\ i <= Len(s) THEN s[i] ELSE ""

\* The tokens of s from position i on: a record with status "ok",
\* "SyntaxError" or "OutOfModel" and the tokens read so far.
RECURSIVE Tokens(_, _)
Tokens(s, i) ==
  IF i > Len(s) THEN [status |-> "ok", toks |-> <<>>]
  ELSE
    LET c == s[i]
        Cons(tok, j) ==
          LET rest == Tokens(s, j)
          IN  [status |-> rest.status, toks |-> <<tok>> \o rest.toks]
        Bad == [status |-> "SyntaxError", toks |-> <<>>]
        Out == [status |-> "OutOfModel", toks |-> <<>>]
    IN
    IF c \in Whitespace THEN Tokens(s, i + 1)
    ELSE IF c \in Digit \/ (c = "." /\ At(s, i + 1) \in Digit) THEN
      LET p == DigitRunEnd(s, i)
          q == IF At(s, p + 1) = "." THEN DigitRunEnd(s, p + 2) ELSE p
          isFloat == q > p
          text == SubSeq(s, i, q)
      IN  IF At(s, q + 1) \in LiteralSuffix THEN Out
          ELSE IF text = <<"0">> /\ At(s, q + 1) \in RadixPrefix THEN Out
          ELSE IF At(s, q + 1) \in Letter THEN Bad
          ELSE IF ~isFloat /\ Len(text) > 1 /\ text[1] = "0" /\ ~AllZero(text)
               THEN Bad
          ELSE Cons([t |-> "num", v |-> text], q + 1)
    ELSE IF c \in Letter THEN
      LET q == NameRunEnd(s, i)
      IN  Cons([t |-> "name", v |-> SubSeq(s, i, q)], q + 1)
    ELSE IF c = "*" /\ At(s, i + 1) = "*" THEN Cons([t |-> "op", v |-> "**"], i + 2)
    ELSE IF c = "/" /\ At(s, i + 1) = "/" THEN Cons([t |-> "op", v |-> "//"], i + 2)
    ELSE IF c = "." /\ At(s, i + 1) = "." /\ At(s, i + 2) = "."
         THEN Cons([t |-> "op", v |-> "..."], i + 3)
    ELSE IF c \in {"+", "-", "*", "/", "%", "(", ")", "."}
         THEN Cons([t |-> "op", v |-> c], i + 1)
    ELSE Bad

\* Names the Python grammar reserves.  True, False and None parse as
\* constants; the other keywords that the inputs can spell are no expression.
KeywordConstants == {<<"N", "o", "n", "e">>, <<"T", "r", "u", "e">>,
                     <<"F", "a", "l", "s", "e">>}

Keywords == {<<"i", "m", "p", "o", "r", "t">>}

KeywordKind(v) ==
  CASE v = <<"N", "o", "n", "e">> -> "None"
    [] v = <<"T", "r", "u", "e">> -> "bool"
    [] v = <<"F", "a", "l", "s", "e">> -> "bool"

(***************************************************************************)
(* Numeric literals                                                        *)
(***************************************************************************)
DropLeadingZeros(ds) == SubSeq(ds, FirstOutside(ds, 1, {"0"}), Len(ds))

DropTrailingZeros(ds) ==
  LET kept == {j \in 1..Len(ds) : ds[j] # "0"}
  IN  IF kept = {} THEN <<>> ELSE SubSeq(ds, 1, Max(kept))

RECURSIVE DigitsValue(_)
DigitsValue(ds) ==
  IF ds = <<>> THEN 0
  ELSE 10 * DigitsValue(SubSeq(ds, 1, Len(ds) - 1)) + DigitVal(ds[Len(ds)])

RECURSIVE Pow10(_)
Pow10(k) == IF k = 0 THEN 1 ELSE 10 * Pow10(k - 1)

RECURSIVE GCD(_, _)
GCD(a, b) == IF b = 0 THEN a ELSE GCD(b, a % b)

Abs(x) == IF x < 0 THEN -x ELSE x

\* The fraction n/d in lowest terms with a positive denominator.
Fraction(n, d) ==
  LET g == GCD(Abs(n), Abs(d))
      sgn == IF d < 0 THEN -1 ELSE 1
  IN  [n |-> sgn * (n \div g), d |-> sgn * (d \div g)]

Fits(q) == Abs(q.n) <= NumLimit /\ q.d <= NumLimit

\* The value of a numeric literal: node.value, an int or a float.
Literal(text) ==
  LET p == DigitRunEnd(text, 1)
      isFloat == p < Len(text)
      ip == DropLeadingZeros(SubSeq(text, 1, p))
      fp == DropTrailingZeros(SubSeq(text, p + 2, Len(text)))
      small == Len(ip) + Len(fp) <= MaxDigits
      q == IF small
           THEN Fraction(DigitsValue(ip \o fp), Pow10(Len(fp)))
           ELSE [n |-> 0, d |-> 1]
  IN  [type |-> "Constant", kind |-> IF isFloat THEN "float" ELSE "int",
       n |-> q.n, d |-> q.d, inModel |-> small /\ Fits(q)]

(***************************************************************************)
(* ast.parse(expr, mode='eval'): the expression grammar                    *)
(*   sum     ::= term (('+' | '-') term)*                                  *)
(*   term    ::= factor (('*' | '/' | '//' | '%') factor)*                 *)
(*   factor  ::= ('+' | '-') factor | power                                *)
(*   power   ::= primary ['**' factor]                                     *)
(*   primary ::= atom ( '(' [argument] ')' | '.' NAME )*                   *)
(*   atom    ::= NUMBER | NAME | '...' | '(' ')' | '(' sum ')'             *)
(* restricted to the characters calculate_api lets through.                *)
(***************************************************************************)
Fail == [ok |-> FALSE]

Parsed(node, next) == [ok |-> TRUE, node |-> node, next |-> next]

EndToken == [t |-> "end", v |-> ""]

Tok(toks, i) == IF i <= Len(toks) THEN toks[i] ELSE EndToken

IsOp(tok, ops) == tok.t = "op" /\ tok.v \in ops

\* The ast operator classes of the binary and unary operator tokens.
BinOpClass(v) ==
  CASE v = "+" -> "Add" [] v = "-" -> "Sub" [] v = "*" -> "Mult"
    [] v = "/" -> "Div" [] v = "//" -> "FloorDiv" [] v = "%" -> "Mod"
    [] v = "**" -> "Pow"

UnaryOpClass(v) == CASE v = "+" -> "UAdd" [] v = "-" -> "USub"

BinOp(op, l, r) == [type |-> "BinOp", op |-> op, left |-> l, right |-> r]

RECURSIVE ParseSum(_, _)
RECURSIVE SumFrom(_, _)
RECURSIVE ParseSumRest(_, _, _)
RECURSIVE SumNext(_, _, _, _)
RECURSIVE ParseTerm(_, _)
RECURSIVE TermFrom(_, _)
RECURSIVE ParseTermRest(_, _, _)
RECURSIVE TermNext(_, _, _, _)
RECURSIVE ParseFactor(_, _)
RECURSIVE ParsePower(_, _)
RECURSIVE PowerFrom(_, _)
RECURSIVE ParsePrimary(_, _)
RECURSIVE PrimaryFrom(_, _)
RECURSIVE ParseTrailers(_, _, _)
RECURSIVE CloseCall(_, _, _, _, _)
RECURSIVE ParseAtom(_, _)

\* A unary operator applied to the parsed operand f.
Unary(op, f) ==
  IF f.ok
  THEN Parsed([type |-> "UnaryOp", op |-> UnaryOpClass(op), operand |-> f.node],
              f.next)
  ELSE Fail

\* base ** f for the parsed exponent f.
Power(base, f) ==
  IF f.ok THEN Parsed(BinOp("Pow", base, f.node), f.next) ELSE Fail

\* The parenthesised expression e, once its ')' is read.
Parenthesised(toks, e) ==
  IF e.ok /\ IsOp(Tok(toks, e.next), {")"}) THEN Parsed(e.node, e.next + 1) ELSE Fail

ParseSum(toks, i) == SumFrom(toks, ParseTerm(toks, i))

SumFrom(toks, l) ==
  IF l.ok THEN ParseSumRest(toks, l.node, l.next) ELSE Fail

ParseSumRest(toks, left, i) ==
  IF IsOp(Tok(toks, i), {"+", "-"})
  THEN SumNext(toks, left, Tok(toks, i).v, ParseTerm(toks, i + 1))
  ELSE Parsed(left, i)

SumNext(toks, left, op, r) ==
  IF r.ok
  THEN ParseSumRest(toks, BinOp(BinOpClass(op), left, r.node), r.next)
  ELSE Fail

ParseTerm(toks, i) == TermFrom(toks, ParseFactor(toks, i))

TermFrom(toks, l) ==
  IF l.ok THEN ParseTermRest(toks, l.node, l.next) ELSE Fail

ParseTermRest(toks, left, i) ==
  IF IsOp(Tok(toks, i), {"*", "/", "//", "%"})
  THEN TermNext(toks, left, Tok(toks, i).v, ParseFactor(toks, i + 1))
  ELSE Parsed(left, i)

TermNext(toks, left, op, r) ==
  IF r.ok
  THEN ParseTermRest(toks, BinOp(BinOpClass(op), left, r.node), r.next)
  ELSE Fail

ParseFactor(toks, i) ==
  IF IsOp(Tok(toks, i), {"+", "-"})
  THEN Unary(Tok(toks, i).v, ParseFactor(toks, i + 1))
  ELSE ParsePower(toks, i)

ParsePower(toks, i) == PowerFrom(toks, ParsePrimary(toks, i))

PowerFrom(toks, b) ==
  IF ~b.ok THEN Fail
  ELSE IF IsOp(Tok(toks, b.next), {"**"})
  THEN Power(b.node, ParseFactor(toks, b.next + 1))
  ELSE b

ParsePrimary(toks, i) == PrimaryFrom(toks, ParseAtom(toks, i))

PrimaryFrom(toks, a) ==
  IF a.ok THEN ParseTrailers(toks, a.node, a.next) ELSE Fail

\* Calls and attribute references after an atom.  Without ',' and '=' a call
\* has no argument, one positional argument, one starred argument or one
\* double-starred argument, which is a keyword argument.
ParseTrailers(toks, node, i) ==
  IF IsOp(Tok(toks, i), {"("}) THEN
    IF IsOp(Tok(toks, i + 1), {")"})
      THEN ParseTrailers(toks, [type |-> "Call", func |-> node, args |-> <<>>,
                                keywords |-> FALSE], i + 2)
    ELSE IF IsOp(Tok(toks, i + 1), {"*"})
      THEN CloseCall(toks, node, "Starred", FALSE, ParseSum(toks, i + 2))
    ELSE IF IsOp(Tok(toks, i + 1), {"**"})
      THEN CloseCall(toks, node, "None", TRUE, ParseSum(toks, i + 2))
    ELSE CloseCall(toks, node, "Positional", FALSE, ParseSum(toks, i + 1))
  ELSE IF IsOp(Tok(toks, i), {"."}) /\ Tok(toks, i + 1).t = "name"
          /\ Tok(toks, i + 1).v \notin (Keywords \cup KeywordConstants)
    THEN ParseTrailers(toks, [type |-> "Attribute", value |-> node,
                              attr |-> Tok(toks, i + 1).v], i + 2)
  ELSE Parsed(node, i)

\* The call of node with the parsed argument e, once its ')' is read.
CloseCall(toks, node, form, kw, e) ==
  IF e.ok /\ IsOp(Tok(toks, e.next), {")"})
  THEN ParseTrailers(toks,
         [type |-> "Call", func |-> node,
          args |-> IF form = "Starred"
                   THEN <<[type |-> "Starred", value |-> e.node]>>
                   ELSE IF form = "Positional" THEN <<e.node>> ELSE <<>>,
          keywords |-> kw],
         e.next + 1)
  ELSE Fail

ParseAtom(toks, i) ==
  IF Tok(toks, i).t = "num" THEN Parsed(Literal(Tok(toks, i).v), i + 1)
  ELSE IF Tok(toks, i).t = "name" THEN
    IF Tok(toks, i).v \in KeywordConstants
      THEN Parsed([type |-> "Constant", kind |-> KeywordKind(Tok(toks, i).v),
                   n |-> 0, d |-> 1, inModel |-> TRUE], i + 1)
    ELSE IF Tok(toks, i).v \in Keywords THEN Fail
    ELSE Parsed([type |-> "Name", id |-> Tok(toks, i).v], i + 1)
  ELSE IF IsOp(Tok(toks, i), {"..."})
    THEN Parsed([type |-> "Constant", kind |-> "Ellipsis", n |-> 0, d |-> 1,
                 inModel |-> TRUE], i + 1)
  ELSE IF IsOp(Tok(toks, i), {"("}) THEN
    IF IsOp(Tok(toks, i + 1), {")"}) THEN Parsed([type |-> "Tuple"], i + 2)
    ELSE Parenthesised(toks, ParseSum(toks, i + 1))
  ELSE Fail

\* The tree of the token sequence lex, if all of it is one expression.
ParseTokens(toks, e) ==
  IF e.ok /\ e.next = Len(toks) + 1
  THEN [status |-> "ok", body |-> e.node]
  ELSE [status |-> "SyntaxError", body |-> [type |-> "None"]]

ParseLexed(lex) ==
  IF lex.status # "ok" THEN [status |-> lex.status, body |-> [type |-> "None"]]
  ELSE ParseTokens(lex.toks, ParseSum(lex.toks, 1))

\* ast.parse: status "ok" with the tree parsed.body, "SyntaxError", or
\* "OutOfModel" for a literal form outside the inputs.
Parse(s) == ParseLexed(Tokens(s, 1))

(***************************************************************************)
(* Values                                                                  *)
(*                                                                         *)
(* k is the Python type.  A number is n/d in lowest terms; approx marks a  *)
(* number the program holds rounded (a non-terminating Decimal quotient, a *)
(* float that is no dyadic fraction, pi, e), of which n/d is the value     *)
(* before rounding.  The model computes only with numbers it holds         *)
(* exactly: an operation that would need the digits of an approx number    *)
(* raises the pseudo-exception OutOfModel, and such inputs are left out.   *)
(***************************************************************************)
Number(k, q, approx) ==
  [k |-> k, n |-> q.n, d |-> q.d, approx |-> approx, name |-> <<>>]

Function(name) ==
  [k |-> "function", n |-> 0, d |-> 1, approx |-> FALSE, name |-> name]

NoneValue == [k |-> "NoneType", n |-> 0, d |-> 1, approx |-> FALSE, name |-> <<>>]

EllipsisValue == [k |-> "ellipsis", n |-> 0, d |-> 1, approx |-> FALSE, name |-> <<>>]

Numeric(v) == v.k \in {"Decimal", "float", "int"}

NoError == [kind |-> "None", arg |-> <<>>]

Return(v) == [ok |-> TRUE, v |-> v, err |-> NoError]

Raise(kind, arg) == [ok |-> FALSE, v |-> NoneValue, err |-> [kind |-> kind, arg |-> arg]]

OutOfModel == Raise("OutOfModel", <<>>)

(***************************************************************************)
(* ALLOWED_MATH_NAMES                                                      *)
(***************************************************************************)
NamePi == <<"p", "i">>
NameE == <<"e">>
NameSqrt == <<"s", "q", "r", "t">>
NameSin == <<"s", "i", "n">>
NameCos == <<"c", "o", "s">>
NameTan == <<"t", "a", "n">>
NameLog == <<"l", "o", "g">>
NameLn == <<"l", "n">>
NameAbs == <<"a", "b", "s">>
NameRound == <<"r", "o", "u", "n", "d">>

AllowedNames ==
  {NamePi, NameE, NameSqrt, NameSin, NameCos, NameTan, NameLog, NameLn,
   NameAbs, NameRound}

\* math.pi and math.e are floats; the fractions are their nearest ones
\* within NumLimit and are never computed with.
ALLOWED_MATH_NAMES(id) ==
  IF id = NamePi THEN Number("float", [n |-> 355, d |-> 113], TRUE)
  ELSE IF id = NameE THEN Number("float", [n |-> 2721, d |-> 1001], TRUE)
  ELSE Function(id)

\* The seven binary and two unary operator classes of ALLOWED_OPERATORS.
ALLOWED_OPERATORS ==
  {"Add", "Sub", "Mult", "Div", "FloorDiv", "Mod", "Pow", "USub", "UAdd"}

(***************************************************************************)
(* Arithmetic of operator.add, sub, mul, truediv, floordiv, mod, pow       *)
(***************************************************************************)
RECURSIVE StripFactor(_, _)
StripFactor(d, f) == IF d % f = 0 THEN StripFactor(d \div f, f) ELSE d

\* d has no prime factor but 2 and 5: n/d is a terminating decimal.
Terminating(d) == StripFactor(StripFactor(d, 2), 5) = 1

\* d is a power of two: n/d is exactly a binary float.
Dyadic(d) == StripFactor(d, 2) = 1

\* Floor and truncation of the fraction q.
Floor(q) == IF q.n >= 0 THEN q.n \div q.d ELSE -((-q.n + q.d - 1) \div q.d)

Trunc(q) == IF q.n >= 0 THEN q.n \div q.d ELSE -((-q.n) \div q.d)

IsZero(v) == v.n = 0

Whole(k) == [n |-> k, d |-> 1]

QAdd(a, b) == Fraction(a.n * b.d + b.n * a.d, a.d * b.d)
QSub(a, b) == Fraction(a.n * b.d - b.n * a.d, a.d * b.d)
QMul(a, b) == Fraction(a.n * b.n, a.d * b.d)
QDiv(a, b) == Fraction(a.n * b.d, a.d * b.n)

\* acc * a ** k for an integer k >= 0; stops at the first product that leaves
\* the number domain.
RECURSIVE QPowFrom(_, _, _)
QPowFrom(acc, a, k) ==
  IF k = 0 \/ ~Fits(acc) THEN acc ELSE QPowFrom(QMul(acc, a), a, k - 1)

QPow(a, k) ==
  IF k = 0 THEN Whole(1)
  ELSE IF a.d = 1 /\ a.n \in {0, 1} THEN a
  ELSE IF a.d = 1 /\ a.n = -1 THEN Whole(IF k % 2 = 0 THEN 1 ELSE -1)
  ELSE QPowFrom(Whole(1), a, k)

\* A number of kind k, or OutOfModel when it leaves the number domain.
Exact(k, q) == IF Fits(q) THEN Return(Number(k, q, FALSE)) ELSE OutOfModel

\* The type of l op r: Decimal combines with Decimal and int, float with
\* float and int; every other pairing is a TypeError.
ResultKind(l, r) ==
  IF ~Numeric(l) \/ ~Numeric(r) THEN "TypeError"
  ELSE IF {l.k, r.k} = {"Decimal", "float"} THEN "TypeError"
  ELSE IF "Decimal" \in {l.k, r.k} THEN "Decimal"
  ELSE IF "float" \in {l.k, r.k} THEN "float"
  ELSE "int"

\* The exception of a zero divisor.
ZeroDivision(k, op, l) ==
  IF k = "Decimal"
  THEN IF IsZero(l) THEN Raise("DivisionUndefined", <<>>)
       ELSE IF op = "Mod" THEN Raise("InvalidOperation", <<>>)
       ELSE Raise("DivisionByZero", <<>>)
  ELSE Raise("ZeroDivisionError", <<>>)

\* ALLOWED_OPERATORS[op_type](left, right)
ApplyBinary(op, l, r) ==
  LET k == ResultKind(l, r)
      a == [n |-> l.n, d |-> l.d]
      b == [n |-> r.n, d |-> r.d]
      whole == b.d = 1 /\ b.n >= 0
  IN
  IF k = "TypeError" THEN Raise("TypeError", <<>>)
  ELSE IF l.approx \/ r.approx THEN OutOfModel
  ELSE IF op = "Add" THEN Exact(k, QAdd(a, b))
  ELSE IF op = "Sub" THEN Exact(k, QSub(a, b))
  ELSE IF op = "Mult" THEN Exact(k, QMul(a, b))
  ELSE IF op \in {"Div", "FloorDiv", "Mod"} /\ IsZero(r) THEN ZeroDivision(k, op, l)
  ELSE IF op = "Div" THEN
    LET q == QDiv(a, b)
    IN  IF ~Fits(q) THEN OutOfModel
        ELSE IF k = "Decimal" THEN Return(Number("Decimal", q, ~Terminating(q.d)))
        ELSE Return(Number("float", q, ~Dyadic(q.d)))
  ELSE IF op = "FloorDiv" THEN
    IF k = "Decimal" THEN Exact(k, Whole(Trunc(QDiv(a, b))))
    ELSE Exact(k, Whole(Floor(QDiv(a, b))))
  ELSE IF op = "Mod" THEN
    IF k = "Decimal" THEN Exact(k, QSub(a, QMul(b, Whole(Trunc(QDiv(a, b))))))
    ELSE Exact(k, QSub(a, QMul(b, Whole(Floor(QDiv(a, b))))))
  ELSE IF op = "Pow" THEN
    IF ~whole THEN OutOfModel
    ELSE IF k = "Decimal" /\ IsZero(l) /\ IsZero(r) THEN Raise("InvalidOperation", <<>>)
    ELSE Exact(k, QPow(a, b.n))
  ELSE Raise("OperatorNotAllowed", <<>>)

\* ALLOWED_OPERATORS[op_type](operand) for USub and UAdd
ApplyUnary(op, v) ==
  IF ~Numeric(v) THEN Raise("TypeError", <<>>)
  ELSE IF op = "USub" THEN Return([v EXCEPT !.n = -v.n])
  ELSE Return(v)

(***************************************************************************)
(* The functions of ALLOWED_MATH_NAMES                                     *)
(***************************************************************************)
RECURSIVE RootFrom(_, _)
RootFrom(n, r) == IF r * r >= n THEN r ELSE RootFrom(n, r + 1)

\* The integer square root of a perfect square n >= 0, else -1.
Root(n) == LET r == RootFrom(n, 0) IN IF r * r = n THEN r ELSE -1

\* round() to the nearest integer, ties to the even one.
RoundHalfEven(q) ==
  LET f == Floor(q)
      twice == 2 * (q.n - f * q.d)
  IN  IF twice < q.d THEN f
      ELSE IF twice > q.d THEN f + 1
      ELSE IF f % 2 = 0 THEN f ELSE f + 1

\* Degrees at which math.sin, math.cos and math.tan of math.radians(x) are
\* exactly -1, 0 or 1, and powers of ten at which math.log10 is an integer.
SinTable == [x \in {0, 90, -90, 270, 450} |->
               IF x = 0 THEN 0 ELSE IF x \in {90, 450} THEN 1 ELSE -1]

CosTable == [x \in {0, 180, -180, 360} |-> IF x \in {0, 360} THEN 1 ELSE -1]

TanTable == [x \in {0} |-> 0]

LogTable == [x \in {1, 10, 100, 1000, 10000} |->
               IF x = 1 THEN 0 ELSE IF x = 10 THEN 1 ELSE IF x = 100 THEN 2
               ELSE IF x = 1000 THEN 3 ELSE 4]

LnTable == [x \in {1} |-> 0]

FromTable(table, v) ==
  IF v.d = 1 /\ v.n \in DOMAIN table
  THEN Return(Number("float", Whole(table[v.n]), FALSE))
  ELSE OutOfModel

\* The call of the function object called name with the values args
ApplyFunction(name, args) ==
  IF Len(args) # 1 THEN Raise("TypeError", <<>>)
  ELSE
    LET v == args[1]
        q == [n |-> v.n, d |-> v.d]
    IN
    IF ~Numeric(v) THEN Raise("TypeError", <<>>)
    ELSE IF name = NameAbs THEN Return([v EXCEPT !.n = Abs(v.n)])
    ELSE IF v.approx THEN OutOfModel
    ELSE IF name = NameRound THEN Exact("int", Whole(RoundHalfEven(q)))
    ELSE IF name = NameSqrt THEN
      IF v.n < 0 THEN Raise("MathDomain", <<>>)
      ELSE IF Root(v.n) < 0 \/ Root(v.d) < 0 THEN OutOfModel
      ELSE Return(Number("float", [n |-> Root(v.n), d |-> Root(v.d)],
                         ~Dyadic(Root(v.d))))
    ELSE IF name = NameSin THEN FromTable(SinTable, v)
    ELSE IF name = NameCos THEN FromTable(CosTable, v)
    ELSE IF name = NameTan THEN FromTable(TanTable, v)
    ELSE IF name \in {NameLog, NameLn} /\ v.n <= 0 THEN Raise("MathDomain", <<>>)
    ELSE IF name = NameLog THEN FromTable(LogTable, v)
    ELSE FromTable(LnTable, v)

\* The call func(args): calling pi or e, which are floats, is a TypeError.
CallValue(f, args) ==
  IF f.k = "function" THEN ApplyFunction(f.name, args) ELSE Raise("TypeError", <<>>)

(***************************************************************************)
(* eval_node                                                               *)
(***************************************************************************)
Unknown == <<"u", "n", "k", "n", "o", "w", "n">>

RECURSIVE eval_node(_)
RECURSIVE EvalArgs(_, _, _, _)
RECURSIVE EvalBinOpRightFirst(_)
RECURSIVE EvalBinOp(_)

\* One call of eval_node(node): it is entered, makes the calls of eval_node
\* whose steps are inner, and returns r.v or raises r.err.  steps lists the
\* entries and exits of eval_node in the order they happen.
Call(node, inner, r) ==
  [ok |-> r.ok, v |-> r.v, err |-> r.err,
   steps |-> <<[ev |-> "call", node |-> node]>> \o inner
               \o <<[ev |-> IF r.ok THEN "return" ELSE "raise", node |-> node]>>]

\* [eval_node(arg) for arg in node.args]: the values, or the first exception.
EvalArgs(args, k, done, sofar) ==
  IF k > Len(args)
  THEN [ok |-> TRUE, vs |-> done, raised |-> Return(NoneValue), steps |-> sofar]
  ELSE LET a == eval_node(args[k])
       IN  IF a.ok THEN EvalArgs(args, k + 1, Append(done, a.v), sofar \o a.steps)
           ELSE [ok |-> FALSE, vs |-> done, raised |-> a, steps |-> sofar \o a.steps]

\* The BinOp branch with the two operands evaluated in the other order.
EvalBinOpRightFirst(node) ==
  LET right == eval_node(node.right)
  IN  IF ~right.ok THEN Call(node, right.steps, right)
      ELSE LET left == eval_node(node.left)
           IN  IF ~left.ok THEN Call(node, right.steps \o left.steps, left)
               ELSE IF node.op \notin ALLOWED_OPERATORS
                    THEN Call(node, right.steps \o left.steps,
                              Raise("OperatorNotAllowed", <<>>))
               ELSE Call(node, right.steps \o left.steps,
                         ApplyBinary(node.op, left.v, right.v))

\* The BinOp branch of eval_node: left, then right, then the operator.
EvalBinOp(node) ==
  LET left == eval_node(node.left)
  IN  IF ~left.ok THEN Call(node, left.steps, left)
      ELSE LET right == eval_node(node.right)
           IN  IF ~right.ok THEN Call(node, left.steps \o right.steps, right)
               ELSE IF node.op \notin ALLOWED_OPERATORS
                    THEN Call(node, left.steps \o right.steps,
                              Raise("OperatorNotAllowed", <<>>))
               ELSE Call(node, left.steps \o right.steps,
                         ApplyBinary(node.op, left.v, right.v))

eval_node(node) ==
  IF node.type = "Constant" THEN
    IF node.kind \in {"int", "float"} THEN
      IF node.inModel
      THEN Call(node, <<>>,
                Return(Number("Decimal", [n |-> node.n, d |-> node.d], FALSE)))
      ELSE Call(node, <<>>, OutOfModel)
    ELSE IF node.kind = "bool" THEN Call(node, <<>>, Raise("ConversionSyntax", <<>>))
    ELSE IF node.kind = "None" THEN Call(node, <<>>, Return(NoneValue))
    ELSE Call(node, <<>>, Return(EllipsisValue))
  ELSE IF node.type = "Name" THEN
    IF node.id \notin AllowedNames
    THEN Call(node, <<>>, Raise("NameNotAllowed", node.id))
    ELSE Call(node, <<>>, Return(ALLOWED_MATH_NAMES(node.id)))
  ELSE IF node.type = "BinOp" THEN EvalBinOp(node)
  ELSE IF node.type = "UnaryOp" THEN
    LET operand == eval_node(node.operand)
    IN  IF ~operand.ok THEN Call(node, operand.steps, operand)
        ELSE IF node.op \notin ALLOWED_OPERATORS
             THEN Call(node, operand.steps, Raise("OperatorNotAllowed", <<>>))
        ELSE Call(node, operand.steps, ApplyUnary(node.op, operand.v))
  ELSE IF node.type = "Call" THEN
    IF node.func.type # "Name"
    THEN Call(node, <<>>, Raise("NameNotAllowed", Unknown))
    ELSE IF node.func.id \notin AllowedNames
         THEN Call(node, <<>>, Raise("NameNotAllowed", node.func.id))
    ELSE LET args == EvalArgs(node.args, 1, <<>>, <<>>)
         IN  IF ~args.ok THEN Call(node, args.steps, args.raised)
             ELSE IF node.keywords
                  THEN Call(node, args.steps, Raise("KeywordArguments", <<>>))
             ELSE Call(node, args.steps,
                       CallValue(ALLOWED_MATH_NAMES(node.func.id), args.vs))
  ELSE Call(node, <<>>, Raise("Unsupported", node.type))

(***************************************************************************)
(* Formatting the result                                                   *)
(***************************************************************************)
RECURSIVE CountFactor(_, _)
CountFactor(d, f) == IF d % f = 0 THEN 1 + CountFactor(d \div f, f) ELSE 0

\* Number of digits after the decimal point of the terminating decimal n/d.
FractionDigits(d) ==
  IF CountFactor(d, 2) > CountFactor(d, 5) THEN CountFactor(d, 2)
  ELSE CountFactor(d, 5)

\* Digits that quantize(Decimal('0.0000000001')) and round(result, 10) keep.
DisplayDigits == 10

\* n/d is not changed by rounding to DisplayDigits places.
Displayable(d) == Terminating(d) /\ FractionDigits(d) <= DisplayDigits

\* The value safe_math_eval returns for result.  In a float returned here,
\* approx marks one that is n/d rounded to DisplayDigits places.
FormatResult(v) ==
  IF v.k = "Decimal" THEN
    IF ~v.approx /\ v.d = 1 THEN [v EXCEPT !.k = "int"]
    ELSE [v EXCEPT !.k = "float", !.approx = ~Displayable(v.d)]
  ELSE IF v.k = "float" THEN [v EXCEPT !.approx = ~Displayable(v.d)]
  ELSE v

(***************************************************************************)
(* safe_math_eval                                                          *)
(***************************************************************************)
NoTree == [type |-> "None"]

\* The pair (result, error) safe_math_eval returns.  Every exception of the
\* model is one the first except clause catches.
Failed(err) == [result |-> NoneValue, error |-> err]

Formatted(result) ==
  IF ~result.ok THEN Failed(result.err)
  ELSE [result |-> FormatResult(result.v), error |-> NoError]

\* Lines 123 to 138: the result of eval_node(parsed.body) is formatted.
AfterEval(text, rs, src, tree, result) ==
  [expr     |-> text,
   rewrites |-> rs,
   source   |-> src,
   parsed   |-> tree.body,
   steps    |-> result.steps,
   outcome  |-> Formatted(result)]

\* Lines 88 to 123: a text that does not parse is a SyntaxError; the tree of
\* one that does is evaluated.
AfterParse(text, rs, src, tree) ==
  IF tree.status # "ok"
  THEN [expr     |-> text,
        rewrites |-> rs,
        source   |-> src,
        parsed   |-> tree.body,
        steps    |-> <<>>,
        outcome  |-> Failed([kind |-> tree.status, arg |-> <<>>])]
  ELSE AfterEval(text, rs, src, tree, eval_node(tree.body))

\* Line 88: src is parsed.
AfterSub(text, rs, src) == AfterParse(text, rs, src, Parse(src))

\* Line 85: the replacements rs are put in place.
AfterMatches(text, rs) == AfterSub(text, rs, Substitute(text, rs, 1, 1))

\* Lines 69 to 85: replace_percent is called on every match in text.
AfterAliases(text) == AfterMatches(text, Rewrites(text))

\* What one call of safe_math_eval(arg) does: expr after the alias
\* replacement, the calls of replace_percent, the text given to ast.parse,
\* the tree, and the pair (result, error) it returns.
safe_math_eval(arg) == AfterAliases(ReplaceAliases(arg))

(***************************************************************************)
(* calculate_api                                                           *)
(***************************************************************************)
\* The limit of len(expr)
MaxExprLen == 200

\* len(expr) > 200
TooLongOffByOne(e) == Len(e) > MaxExprLen + 1

TooLong(e) == Len(e) > MaxExprLen

\* re.match(r'^[0-9+\-*/().%\s\^×÷a-zA-Z]+$', expr)
GateMatch(s) == s # <<>> /\ \A k \in 1..Len(s) : s[k] \in GateChars

NotCalled ==
  [expr |-> <<>>, rewrites |-> <<>>, source |-> <<>>, parsed |-> NoTree,
   steps |-> <<>>,
   outcome |-> [result |-> NoneValue, error |-> [kind |-> "NotCalled", arg |-> <<>>]]]

Rejected(status, why) ==
  [status |-> status, body |-> "error", error |-> [kind |-> why, arg |-> <<>>],
   result |-> NoneValue]

\* json.dumps cannot serialise a function object or Ellipsis.
Serialisable(v) == v.k \in {"int", "float", "Decimal", "NoneType"}

\* JsonResponse({'error': error}, status=400) or JsonResponse({'result': result})
Respond(call) ==
  [called |-> TRUE, call |-> call,
   response |->
     IF call.outcome.error # NoError
     THEN [status |-> 400, body |-> "error",
           error |-> call.outcome.error, result |-> NoneValue]
     ELSE IF Serialisable(call.outcome.result)
     THEN [status |-> 200, body |-> "result", error |-> NoError,
           result |-> call.outcome.result]
     ELSE [status |-> 500, body |-> "exception",
           error |-> [kind |-> "TypeError", arg |-> <<>>],
           result |-> NoneValue]]

Reject(status, why) ==
  [called |-> FALSE, call |-> NotCalled, response |-> Rejected(status, why)]

\* The handler after expr = request.POST.get('expression', '').strip()
Handle(method, e) ==
  IF method # "POST" THEN Reject(405, "MethodNotAllowed")
  ELSE IF e = <<>> THEN Reject(400, "EmptyExpression")
  ELSE IF TooLong(e) THEN Reject(400, "TooLong")
  ELSE IF ~GateMatch(e) THEN Reject(400, "InvalidCharacters")
  ELSE Respond(safe_math_eval(e))

\* The handler: the response and the call of safe_math_eval, if it makes one.
calculate_api(req) == Handle(req.method, strip(req.expression))

(***************************************************************************)
(* Requests                                                                *)
(***************************************************************************)
\* Longest free input, counted in pieces of Alphabet.
MaxPieces == 3

NameOs == <<"o", "s">>
NameNone == <<"N", "o", "n", "e">>
NameImport == <<"i", "m", "p", "o", "r", "t">>

Alphabet ==
  {<<"0">>, <<"1">>, <<"2">>, <<".">>, <<"+">>, <<"-">>, <<"*">>, <<"/">>,
   <<"%">>, <<"(">>, <<")">>, <<"^">>, <<" ">>, <<"!">>,
   NamePi, NameAbs, NameOs, NameNone}

RECURSIVE Pieces(_)
Pieces(k) ==
  IF k = 0 THEN {<<>>}
  ELSE {<<>>} \cup {a \o w : a \in Alphabet, w \in Pieces(k - 1)}

\* Operands, operators and suffixes of the inputs  X op Y  and  X op Y%.
Operands ==
  {<<"0">>, <<"1">>, <<"2">>, <<"7">>, <<"1", "0">>, <<"1", "0", "0">>,
   <<"1", ".", "5">>, <<"(", "1", ")">>, <<"(", "0", "-", "7", ")">>,
   <<"1", "0", "%">>, NamePi, NameOs, NameNone, NameImport,
   NameSqrt \o <<"(", "4", ")">>, NameSqrt \o <<"(", "2", ")">>,
   NameSin \o <<"(", "9", "0", ")">>, NameAbs \o <<"(", "2", ")">>,
   NameRound \o <<"(", "2", ".", "5", ")">>, NameOs \o <<"(", "1", ")">>,
   NameImport \o <<"(", "1", ")">>}

Operators ==
  {<<"+">>, <<"-">>, <<"*">>, <<"/">>, <<"/", "/">>, <<"%">>, <<"*", "*">>,
   <<"^">>, <<"×">>, <<"÷">>, <<" ">>, <<",">>}

Shaped ==
  Operands \cup
  {x \o op \o y \o suffix :
     x \in Operands, op \in Operators, y \in Operands, suffix \in {<<>>, <<"%">>}}

\* Inputs around the length limit: a character repeated, with blanks around.
Repeat(c, k) == [j \in 1..k |-> c]

Long ==
  {Repeat(" ", lead) \o Repeat(c, k) \o Repeat(" ", trail) :
     c \in {"0", "a", "!"},
     k \in (MaxExprLen - 1)..(MaxExprLen + 1),
     lead \in 0..1, trail \in 0..1}

\* Operands that raise different exceptions, with two that raise none, and
\* the sums and quotients of two and of three of them.
Raising ==
  {NameOs, <<"(", "1", "/", "0", ")">>, <<"(", "0", "/", "0", ")">>,
   NameSqrt \o <<"(", "0", "-", "1", ")">>, NamePi \o <<"(", "1", ")">>,
   <<"T", "r", "u", "e">>, <<"(", ")">>, <<"1">>, NameAbs \o <<"(", "2", ")">>}

Failing ==
  {l \o op \o r : l \in Raising, op \in {<<"+">>, <<"/">>}, r \in Raising}
    \cup {l \o <<"+">> \o m \o op \o r :
            l \in Raising, m \in Raising, op \in {<<"+">>, <<"*">>}, r \in Raising}

Inputs == Pieces(MaxPieces) \cup Shaped \cup Long \cup Failing

\* An input whose evaluation stays within the number domain.
InModel(req) == calculate_api(req).call.outcome.error.kind # "OutOfModel"

Requests ==
  [method : {"POST"}, expression : Inputs]
    \cup [method : {"GET"}, expression : Operands]

(***************************************************************************)
(* The state machine: a request arrives and calculate_api answers it.      *)
(***************************************************************************)
NoResponse == Rejected(0, "None")

Init ==
  /\ pc = "received"
  /\ request \in {req \in Requests : InModel(req)}
  /\ invoked = FALSE
  /\ expr = <<>>
  /\ rewrites = <<>>
  /\ source = <<>>
  /\ parsed = NoTree
  /\ steps = <<>>
  /\ outcome = NotCalled.outcome
  /\ response = NoResponse

\* The state after the handler returned r.
Returned(r) ==
  /\ invoked' = r.called
  /\ expr' = r.call.expr
  /\ rewrites' = r.call.rewrites
  /\ source' = r.call.source
  /\ parsed' = r.call.parsed
  /\ steps' = r.call.steps
  /\ outcome' = r.call.outcome
  /\ response' = r.response

CalculateApi ==
  /\ pc = "received"
  /\ Returned(calculate_api(request))
  /\ pc' = "responded"
  /\ UNCHANGED request

Next == CalculateApi

Spec == Init /\ [][Next]_vars

(***************************************************************************)
(* Properties                                                              *)
(***************************************************************************)
Answered == pc = "responded"

Evaluated == pc = "responded" /\ invoked

\* The expression calculate_api works on: the submitted text, trimmed.
Trimmed == strip(request.expression)

IsNumber(v) == v.k \in {"int", "float", "Decimal"}

Succeeded == Evaluated /\ outcome.error = NoError

EndsWith(s, suffix) ==
  Len(s) >= Len(suffix)
    /\ SubSeq(s, Len(s) - Len(suffix) + 1, Len(s)) = suffix

AllDigits(s) == s # <<>> /\ \A k \in 1..Len(s) : s[k] \in Digit

\* C1: every call of safe_math_eval returns either a number (int or float)
\* and no error, or no value and an error; never success with a value that
\* is absent or no number.
C1_NumberOrError ==
  Evaluated =>
    \/ outcome.error = NoError /\ IsNumber(outcome.result)
    \/ outcome.error # NoError /\ outcome.result = NoneValue

\* The identifiers text uses as a bare name or a call target: its maximal
\* runs of letters and digits that start with a letter, but for the
\* attribute names, which follow a '.'.
Identifiers(text) ==
  LET lex == Tokens(text, 1)
  IN  {lex.toks[k].v :
         k \in {j \in 1..Len(lex.toks) :
                  /\ lex.toks[j].t = "name"
                  /\ ~(j > 1 /\ IsOp(lex.toks[j - 1], {"."}))}}

\* C2: an expression that uses an identifier outside the whitelist returns
\* the name-not-allowed error and nothing else.
C2_WhitelistClosure ==
  (Evaluated /\ parsed # NoTree /\ Identifiers(source) \ AllowedNames # {})
    => outcome.error.kind = "NameNotAllowed"

\* The operand X of a text "X/0", "X//0" or "X%0", or <<>> for other text.
ZeroDivisorOperand(text) ==
  IF EndsWith(text, <<"/", "/", "0">>) THEN SubSeq(text, 1, Len(text) - 3)
  ELSE IF EndsWith(text, <<"/", "0">>) \/ EndsWith(text, <<"%", "0">>)
       THEN SubSeq(text, 1, Len(text) - 2)
  ELSE <<>>

\* X evaluates to a number by itself.
EvaluatesToNumber(text) ==
  LET r == safe_math_eval(text).outcome
  IN  r.error = NoError /\ IsNumber(r.result)

DivisionByZeroKinds == {"DivisionByZero", "DivisionUndefined", "ZeroDivisionError"}

\* C3: for an operand X that evaluates to a number, the texts "X/0", "X//0"
\* and "X%0" return the division-by-zero error.
C3_DivisionByZeroClosure ==
  (Evaluated /\ ZeroDivisorOperand(Trimmed) # <<>>
             /\ EvaluatesToNumber(ZeroDivisorOperand(Trimmed)))
    => outcome.error.kind \in DivisionByZeroKinds

\* Position of the single '+' of a text "a+N%" made of two digit strings,
\* or 0 for other text.
PlusOfPercentSum(text) ==
  LET plus == {k \in 1..Len(text) : text[k] = "+"}
  IN  IF Cardinality(plus) = 1 /\ Len(text) >= 4 /\ text[Len(text)] = "%"
         /\ AllDigits(SubSeq(text, 1, Min(plus) - 1))
         /\ AllDigits(SubSeq(text, Min(plus) + 1, Len(text) - 1))
         /\ Len(text) <= MaxDigits
      THEN Min(plus) ELSE 0

\* C4: "a+N%" evaluates to a + a*N/100.
C4_PercentOfBase ==
  (Evaluated /\ PlusOfPercentSum(Trimmed) # 0) =>
    LET k == PlusOfPercentSum(Trimmed)
        a == DigitsValue(SubSeq(Trimmed, 1, k - 1))
        N == DigitsValue(SubSeq(Trimmed, k + 1, Len(Trimmed) - 1))
        expected == Fraction(100 * a + a * N, 100)
    IN  /\ outcome.error = NoError
        /\ IsNumber(outcome.result)
        /\ outcome.result.n = expected.n
        /\ outcome.result.d = expected.d

BinaryOperators == {"Add", "Sub", "Mult", "Div", "FloorDiv", "Mod", "Pow"}

\* C5: a binary operation of a whitelisted operator on two operands that
\* evaluate to numbers, with a non-zero divisor, yields a number.  (0 ** 0,
\* which has no value either, is set aside with the zero divisors.)
C5_BinaryOfNumbers ==
  (Evaluated /\ parsed.type = "BinOp" /\ parsed.op \in BinaryOperators
     /\ eval_node(parsed.left).ok /\ IsNumber(eval_node(parsed.left).v)
     /\ eval_node(parsed.right).ok /\ IsNumber(eval_node(parsed.right).v)
     /\ ~(parsed.op \in {"Div", "FloorDiv", "Mod"}
            /\ IsZero(eval_node(parsed.right).v))
     /\ ~(parsed.op = "Pow" /\ IsZero(eval_node(parsed.left).v)
            /\ IsZero(eval_node(parsed.right).v)))
    => outcome.error = NoError /\ IsNumber(outcome.result)

\* C6 as stated: a request whose submitted expression is longer than 200
\* characters is rejected before safe_math_eval is invoked.
C6_SubmittedLengthBound ==
  (Answered /\ Len(request.expression) > MaxExprLen)
    => ~invoked /\ response.status = 400

\* C6 amended: a POST request whose expression is longer than 200 characters
\* after trimming is rejected as too long, before safe_math_eval is invoked,
\* whatever its characters.
C6_TrimmedLengthBound ==
  (Answered /\ request.method = "POST" /\ Len(Trimmed) > MaxExprLen)
    => ~invoked /\ response.status = 400 /\ response.error.kind = "TooLong"

C6_Witness ==
  Answered /\ request.method = "POST" /\ Len(Trimmed) > MaxExprLen
    /\ \E k \in 1..Len(Trimmed) : Trimmed[k] = "0"

\* C7: a successful evaluation to a number returns an integer when the
\* evaluated result is integral, and otherwise a float with at most ten
\* fractional digits.
C7_Formatting ==
  (Succeeded /\ IsNumber(eval_node(parsed).v)) =>
    LET value == eval_node(parsed).v
    IN  IF ~value.approx /\ value.d = 1
        THEN outcome.result.k = "int"
        ELSE /\ outcome.result.k = "float"
             /\ outcome.result.approx \/ FractionDigits(outcome.result.d) <= DisplayDigits

\* The characters C8 lists: digits, + - * / ( ) . % ^ × ÷, whitespace and
\* ASCII letters.
ListedChars ==
  {"0", "1", "2", "3", "4", "5", "6", "7", "8", "9",
   "+", "-", "*", "/", "(", ")", ".", "%", "^", "×", "÷", " ", "\t"}
    \cup Letter

HasUnlistedChar(s) == \E k \in 1..Len(s) : s[k] \notin ListedChars

\* C8 as stated: a request whose trimmed expression has a character outside
\* the list gets the invalid-character error, and safe_math_eval is not
\* invoked.
C8_GateAlways ==
  (Answered /\ HasUnlistedChar(Trimmed))
    => ~invoked /\ response.error.kind = "InvalidCharacters"

\* C8 amended: safe_math_eval is never invoked on an expression with a
\* character outside the list, and a POST request with such an expression of
\* at most 200 characters gets the invalid-character error.
C8_Gate ==
  (Answered /\ HasUnlistedChar(Trimmed)) =>
    /\ ~invoked
    /\ (request.method = "POST" /\ Len(Trimmed) <= MaxExprLen)
         => response.error.kind = "InvalidCharacters"

C8_Witness ==
  Answered /\ request.method = "POST" /\ Len(Trimmed) <= MaxExprLen
    /\ HasUnlistedChar(Trimmed) /\ \E k \in 1..Len(Trimmed) : Trimmed[k] \in Digit

\* C9 as stated: the text handed to the parser contains no '%'.
C9_NoPercent ==
  Evaluated => \A k \in 1..Len(source) : source[k] # "%"

\* C9 amended: in the text handed to the parser no '%' follows a number (a
\* digit, or a digit and a '.'); a '%' that follows anything else, as in
\* "(1)%2", stays and is the modulo operator.
C9_NoPercentAfterNumber ==
  Evaluated =>
    \A k \in 2..Len(source) :
      source[k] = "%" =>
        /\ source[k - 1] \notin Digit
        /\ ~(source[k - 1] = "." /\ k > 2 /\ source[k - 2] \in Digit)

C9_Witness ==
  Evaluated /\ rewrites # <<>> /\ \E k \in 1..Len(source) : source[k] = "%"

\* A rewrite whose match is at the start of the text or follows + - * / (.
StandalonePlace(r) ==
  r.start = 1 \/ expr[r.start - 1] \in {"+", "-", "*", "/", "("}

ParenthesisedHundredth(num) == <<"(">> \o num \o <<"/", "1", "0", "0", ")">>

OperatorOfPercentTerm(text) ==
  LET ops == {k \in 1..Len(text) : text[k] \in {"-", "*", "/"}}
  IN  IF Cardinality(ops) = 1 /\ Len(text) >= 4 /\ text[Len(text)] = "%"
         /\ AllDigits(SubSeq(text, 1, Min(ops) - 1))
         /\ AllDigits(SubSeq(text, Min(ops) + 1, Len(text) - 1))
      THEN Min(ops) ELSE 0

\* The contextual replacement +(base*num/100).
PlusPercentOfBase(base, num) ==
  <<"+", "(">> \o base \o <<"*">> \o num \o <<"/", "1", "0", "0", ")">>

\* C11: in "a op N%", for digit strings a and N and op one of - * /, the
\* percentage is replaced by +(a*N/100): "100-10%" is rewritten with
\* +(100*10/100) in the place of 10%.
C11_ContextualQuirk ==
  (Evaluated /\ OperatorOfPercentTerm(Trimmed) # 0) =>
    /\ Len(rewrites) = 1
    /\ rewrites[1].repl =
         PlusPercentOfBase(SubSeq(Trimmed, 1, OperatorOfPercentTerm(Trimmed) - 1),
                           rewrites[1].num)

\* The nodes eval_node can be called on when it evaluates node: node itself,
\* the operands of a BinOp or UnaryOp and the arguments of a Call.
RECURSIVE Nodes(_)
Nodes(node) ==
  {node} \cup
    IF node.type = "BinOp" THEN Nodes(node.left) \cup Nodes(node.right)
    ELSE IF node.type = "UnaryOp" THEN Nodes(node.operand)
    ELSE IF node.type = "Call"
      THEN UNION {Nodes(node.args[k]) : k \in 1..Len(node.args)}
    ELSE {}

\* Nodes of the left operand only, and of the right operand only.
LeftOnly(node) == Nodes(node.left) \ Nodes(node.right)

RightOnly(node) == Nodes(node.right) \ Nodes(node.left)

\* The steps made on the nodes of set.
StepsOn(set) == {k \in 1..Len(steps) : steps[k].node \in set}

\* C12: when eval_node evaluates a binary operation, every step on the left
\* operand comes before every step on the right operand; if the left operand
\* raises, no step is made on the right operand, the binary operation ends
\* right after the left operand does, and the error safe_math_eval returns
\* is the left operand's, whatever the right operand would raise.  The same
\* error wins in every binary operation inside the expression.
C12_LeftBeforeRight ==
  (Evaluated /\ parsed.type = "BinOp") =>
    /\ \A i \in StepsOn(LeftOnly(parsed)) :
         \A j \in StepsOn(RightOnly(parsed)) : i < j
    /\ ~eval_node(parsed.left).ok =>
         /\ StepsOn(RightOnly(parsed)) = {}
         /\ steps = <<[ev |-> "call", node |-> parsed]>>
                      \o eval_node(parsed.left).steps
                      \o <<[ev |-> "raise", node |-> parsed]>>
         /\ outcome.result = NoneValue
         /\ outcome.error = eval_node(parsed.left).err
    /\ \A b \in Nodes(parsed) :
         (b.type = "BinOp" /\ ~eval_node(b.left).ok) =>
           /\ ~eval_node(b).ok
           /\ eval_node(b).err = eval_node(b.left).err

\* A binary operation whose operands both raise, each its own exception, the
\* left one inside a binary operation of its own.
C12_Witness ==
  /\ Evaluated /\ parsed.type = "BinOp"
  /\ parsed.left.type = "BinOp"
  /\ ~eval_node(parsed.left).ok
  /\ ~eval_node(parsed.right).ok
  /\ eval_node(parsed.right).err # eval_node(parsed.left).err
  /\ RightOnly(parsed) # {}
  /\ outcome.error = eval_node(parsed.left).err

====
